---------------------------- MODULE Spec2Model ----------------------------
(***************************************************************************)
(* State-machine model of blue_st_sdk/manager.py: the Manager singleton    *)
(* (scanning flag, node list, listener list, scan-worker reference), the   *)
(* _StoppableScanner worker thread and the _ScannerDelegate callback.      *)
(*                                                                         *)
(* Threads are the caller threads (Callers) and the scan-worker threads    *)
(* (Workers).  Each action is one atomic step of one thread: a read or a   *)
(* write of shared state, or a critical section guarded by                 *)
(* lock_for_object / lock (a critical section never blocks inside, so it   *)
(* is one step).  Listener callbacks are invoked in the notifying thread   *)
(* (the argument of ThreadPoolExecutor.submit is evaluated by the caller). *)
(***************************************************************************)
EXTENDS Integers, Sequences, FiniteSets, TLC

\* ------------------------------------------------------------------ bounds
MaxTag == 2          \* tags of the nodes callers add
MaxWorkers == 1      \* _StoppableScanner objects alive or referenced at a time
MaxPending == 2      \* tasks waiting in the thread pool's queue
MaxDriverStops == 2  \* calls of Scanner.stop counted per worker
MaxManagers == 3     \* Manager objects constructed

\* ------------------------------------------------------- program constants
SCANNING_TIME_DEFAULT_s == 10
SCANNING_TIME_PROCESS_s == 1

Callers == {"c1", "c2"}
Workers == 1..MaxWorkers
Tags == 1..MaxTag
Addrs == {1}             \* addresses that advertise during a scan
Listeners == {"l1"}
FanListeners == {"l1", "l2"}   \* listeners of the notification loops
CallbackOutcomes == {"returns", "raises", "hangs"}
TimeoutInputs == {1, 2}  \* timeout_s arguments of start_discovery, in seconds
DiscoverTimeouts == {0, 1}  \* timeout_s arguments of discover (0: default)

\* A feature mask is the set of the positions of its bits that are 1
\* (position 0 is the least significant): 1 is {0}, 3 is {0, 1}, 0 is {}.
Bit(k) == {k}

\* FeatureCharacteristic.DEFAULT_MASK_TO_FEATURE_DIC as the module is loaded:
\* the built-in mask-to-feature dictionary (two entries stand for it).
DEFAULT_MASK_TO_FEATURE_DIC == {<<Bit(0), "Default1">>, <<Bit(1), "Default2">>}

DeviceIds == {1, 2}      \* device_id arguments
\* mask_to_features_dic arguments: {1:A, 2:B, 4:C}, {2^31:A}, {3:A}, {0:A},
\* {1:A, 3:B}, {2^32:A}, {}
FeatureMaps ==
    { {<<Bit(0), "A">>, <<Bit(1), "B">>, <<Bit(2), "C">>},
      {<<Bit(31), "A">>},
      {<<{0, 1}, "A">>},
      {<<{}, "A">>},
      {<<Bit(0), "A">>, <<{0, 1}, "B">>},
      {<<Bit(32), "A">>},
      {} }

VARIABLES
    is_scanning,        \* Manager._is_scanning
    scanner_thread,     \* Manager._scanner_thread: 0 is None, else a worker
    discovered_nodes,   \* Manager._discovered_nodes: sequence of node tags
    connected,          \* tags of the listed nodes whose status is CONNECTED
    listeners,          \* Manager._listeners
    pc,                 \* position of each caller thread
    tgt,                \* per caller: worker whose stop() it is executing
    arg,                \* per caller: timeout_s of a start_discovery call
    ctag,               \* per caller: tag of the node being added
    inReset,            \* per caller: stop_discovery was called by reset_discovery
    held,               \* per caller: the value get_nodes returned to it
    wpc,                \* position of each worker thread
    wk,                 \* fields of each _StoppableScanner object
    wtag,               \* per worker: tag of the node being added
    session,            \* per worker: what stop_discovery has done to its scan
    nodes_lock,         \* thread inside a block on the node list's lock
    fan,                \* per caller: the listener loop of a notification
    tasks,              \* tasks submitted to Manager._thread_pool, not yet run
    Manager_INSTANCE,   \* Manager._INSTANCE: 0 is None, else a Manager object
    constructed,        \* Manager objects whose __init__ has completed
    mine,               \* per caller: the Manager object its call has made
    features_decoder_dic, \* Manager._features_decoder_dic
    default_dic,        \* FeatureCharacteristic.DEFAULT_MASK_TO_FEATURE_DIC
    got,                \* per caller: the dictionary get_node_features gave it
    sent,               \* the listener notification made by the last step
    ret                 \* the call that returned in the last step

vars == <<is_scanning, scanner_thread, discovered_nodes, connected, listeners,
          pc, tgt, arg, ctag, inReset, held, wpc, wk, wtag,
          session, nodes_lock, fan, tasks, Manager_INSTANCE, constructed,
          mine, features_decoder_dic, default_dic, got, sent, ret>>

mgrVars == <<is_scanning, scanner_thread>>
nodeVars == <<discovered_nodes, connected>>
callerLocals == <<tgt, arg, ctag, inReset>>
workerVars == <<wpc, wk, wtag>>
notifyVars == <<fan, tasks>>
classVars == <<Manager_INSTANCE, constructed, mine, features_decoder_dic,
               default_dic, got>>

\* ----------------------------------------------------------------- helpers
Range(s) == {s[i] : i \in 1..Len(s)}

NoDuplicates(s) == \A i, j \in 1..Len(s) : i # j => s[i] # s[j]

RECURSIVE RemoveFirst(_, _)
\* list.remove(x): drops the first element equal to x
RemoveFirst(s, x) ==
    IF s = <<>> THEN <<>>
    ELSE IF Head(s) = x THEN Tail(s)
    ELSE <<Head(s)>> \o RemoveFirst(Tail(s), x)

NoEvent == [kind |-> "none", byCaller |-> "none", byWorker |-> 0, to |-> {},
            outcome |-> "none"]
NoRet == [c |-> "none", op |-> "none", arg |-> 0, val |-> "none",
          x |-> {}, node |-> 0, l |-> "none"]

\* The record of a finished call: its caller, its name, its integer argument
\* and its outcome.  x holds a dictionary argument and node the node a
\* lookup answered (0 for None); l is the listener or the name a call was
\* given.  The three are empty for the other calls.
Returns(c, op, a, v) ==
    [c |-> c, op |-> op, arg |-> a, val |-> v, x |-> {}, node |-> 0,
     l |-> "none"]

\* The fan-out loop of _notify_discovery_change / _notify_new_node_discovered:
\* one callback per listener of the list, made by the notifying thread.
FanOut(kind, c, w) ==
    [kind |-> kind, byCaller |-> c, byWorker |-> w, to |-> Range(listeners),
     outcome |-> "returns"]

\* No listener loop in progress.
NoFan == [kind |-> "none", i |-> 0, op |-> "none", seen |-> <<>>, at |-> {}]

\* A listener loop that begins: the list iterator is at the first element.
\* seen is the sequence of the listeners whose callback has returned so far
\* and at the set of the listeners registered as the loop begins.
NewFan(kind, op) ==
    [kind |-> kind, i |-> 1, op |-> op, seen |-> <<>>,
     at |-> Range(listeners)]

\* A dictionary is the set of its <<key, value>> pairs.
NoDict == [ref |-> "none", id |-> 0, val |-> {}]

\* A _StoppableScanner after __init__: _exc is not set there.  elapsed is
\* run()'s local elapsed_time_s (0 outside the loop); timed_out records that
\* run() took the branch of line 162; stop_req records that a caller's
\* stop() executed line 175 after the thread was started; drv_stops counts
\* the calls of Scanner.stop (line 180) on the worker's scanner, up to
\* MaxDriverStops.
NewWorker == [stop_called |-> FALSE, process_done |-> FALSE, exc |-> "unset",
              timeout_s |-> 0, elapsed |-> 0, timed_out |-> FALSE,
              stop_req |-> FALSE, drv_stops |-> 0]

\* One more call of Scanner.stop.
DriverStopped(n) == IF n < MaxDriverStops THEN n + 1 ELSE n

Init ==
    /\ is_scanning = FALSE
    /\ scanner_thread = 0
    /\ discovered_nodes = <<>>
    /\ connected = {}
    /\ listeners = <<>>
    /\ pc = [c \in Callers |-> "idle"]
    /\ tgt = [c \in Callers |-> 0]
    /\ arg = [c \in Callers |-> 0]
    /\ ctag = [c \in Callers |-> 0]
    /\ inReset = [c \in Callers |-> FALSE]
    /\ held = [c \in Callers |-> "none"]
    /\ wpc = [w \in Workers |-> "none"]
    /\ wk = [w \in Workers |-> NewWorker]
    /\ wtag = [w \in Workers |-> 0]
    /\ session = [w \in Workers |-> "open"]
    /\ nodes_lock = "free"
    /\ fan = [c \in Callers |-> NoFan]
    /\ tasks = 0
    /\ Manager_INSTANCE = 0
    /\ constructed = 0
    /\ mine = [c \in Callers |-> 0]
    /\ features_decoder_dic = {}
    /\ default_dic = DEFAULT_MASK_TO_FEATURE_DIC
    /\ got = [c \in Callers |-> NoDict]
    /\ sent = NoEvent
    /\ ret = NoRet

\* ------------------------------------------------------- listener registry
\* The listeners a caller can pass: two listener objects and None.
ListenerArgs == FanListeners \cup {"None"}

\* The test of lines 561 and 573: the listener is in the list.
ListenerPresentMutant(list, l) == FALSE
ListenerPresent(list, l) == l \in Range(list)

\* Manager.add_listener: nothing for None; otherwise, under lock(self), the
\* listener is appended unless it is in the list.  The record of the call
\* keeps the listener and the length of the list at the call.
add_listener(c, l) ==
    /\ pc[c] = "idle"
    /\ listeners' = IF l = "None" \/ ListenerPresent(listeners, l)
                    THEN listeners
                    ELSE Append(listeners, l)
    /\ sent' = NoEvent
    /\ ret' = [Returns(c, "add_listener", Len(listeners), "None")
                  EXCEPT !.l = l]
    /\ UNCHANGED <<mgrVars, nodeVars, pc, callerLocals, held, workerVars,
                   session, nodes_lock, notifyVars, classVars>>

\* Manager.remove_listener: nothing for None; otherwise, under lock(self),
\* list.remove takes the first occurrence of a listener that is in the list.
remove_listener(c, l) ==
    /\ pc[c] = "idle"
    /\ listeners' = IF l # "None" /\ ListenerPresent(listeners, l)
                    THEN RemoveFirst(listeners, l)
                    ELSE listeners
    /\ sent' = NoEvent
    /\ ret' = [Returns(c, "remove_listener", Len(listeners), "None")
                  EXCEPT !.l = l]
    /\ UNCHANGED <<mgrVars, nodeVars, pc, callerLocals, held, workerVars,
                   session, nodes_lock, notifyVars, classVars>>

\* --------------------------------------------------------------- node list
\* The test of add_node's loop: a node with the new tag is in the list.
TagPresentMutant(list, tag) == list # <<>> /\ list[Len(list)] = tag
TagPresent(list, tag) == \E i \in 1..Len(list) : list[i] = tag

\* python_utils.lock_for_object: one lock per object; a thread enters a
\* `with lock_for_object(self._discovered_nodes)` block only while no thread
\* is inside one.
lock_for_object_free == nodes_lock = "free"

\* Manager.add_node called directly, lines 416-417: enter the block.
add_node(c, tag) ==
    /\ pc[c] = "idle"
    /\ lock_for_object_free
    /\ nodes_lock' = c
    /\ pc' = [pc EXCEPT ![c] = "an_check"]
    /\ ctag' = [ctag EXCEPT ![c] = tag]
    /\ sent' = NoEvent
    /\ ret' = NoRet
    /\ UNCHANGED <<mgrVars, nodeVars, listeners, tgt, arg, inReset, held,
                   workerVars, session, notifyVars, classVars>>

\* Manager.add_node, lines 418-420: the search for the tag; return False
\* leaves the block.
add_node_check(c) ==
    /\ pc[c] = "an_check"
    /\ IF TagPresent(discovered_nodes, ctag[c])
       THEN /\ ret' = Returns(c, "add_node", ctag[c], "False")
            /\ pc' = [pc EXCEPT ![c] = "idle"]
            /\ ctag' = [ctag EXCEPT ![c] = 0]
            /\ nodes_lock' = "free"
       ELSE /\ pc' = [pc EXCEPT ![c] = "an_append"]
            /\ ret' = NoRet
            /\ UNCHANGED <<ctag, nodes_lock, notifyVars, classVars>>
    /\ sent' = NoEvent
    /\ UNCHANGED <<mgrVars, nodeVars, listeners, tgt, arg, inReset, held,
                   workerVars, session, notifyVars, classVars>>

\* Manager.add_node, line 421: append and leave the block.
add_node_append(c) ==
    /\ pc[c] = "an_append"
    /\ discovered_nodes' = Append(discovered_nodes, ctag[c])
    /\ pc' = [pc EXCEPT ![c] = "an_notify"]
    /\ nodes_lock' = "free"
    /\ sent' = NoEvent
    /\ ret' = NoRet
    /\ UNCHANGED <<mgrVars, connected, listeners, callerLocals, held,
                   workerVars, session, notifyVars, classVars>>

\* Manager.add_node, lines 422-423: notify outside the lock, return True.
add_node_notify(c) ==
    /\ pc[c] = "an_notify"
    /\ sent' = FanOut("node", c, 0)
    /\ ret' = Returns(c, "add_node", ctag[c], "True")
    /\ pc' = [pc EXCEPT ![c] = "idle"]
    /\ ctag' = [ctag EXCEPT ![c] = 0]
    /\ UNCHANGED <<mgrVars, nodeVars, listeners, tgt, arg, inReset, held,
                   workerVars, session, nodes_lock, notifyVars, classVars>>

\* Manager.get_nodes: returns self._discovered_nodes, the list object itself.
get_nodes_value == "discovered_nodes"

\* The elements of a value get_nodes returned, as its holder sees them now.
Deref(ref) == IF ref = "discovered_nodes" THEN discovered_nodes ELSE <<>>

get_nodes(c) ==
    /\ pc[c] = "idle"
    /\ lock_for_object_free
    /\ held' = [held EXCEPT ![c] = get_nodes_value]
    /\ sent' = NoEvent
    /\ ret' = NoRet
    /\ UNCHANGED <<mgrVars, nodeVars, listeners, pc, callerLocals, workerVars,
                   session, nodes_lock, notifyVars, classVars>>

\* A caller changes the sequence it got from get_nodes (list.pop()).
caller_pop(c) ==
    /\ pc[c] = "idle"
    /\ held[c] = "discovered_nodes"
    /\ discovered_nodes # <<>>
    /\ discovered_nodes' = SubSeq(discovered_nodes, 1, Len(discovered_nodes) - 1)
    /\ connected' = connected \ {discovered_nodes[Len(discovered_nodes)]}
    /\ sent' = NoEvent
    /\ ret' = Returns(c, "pop", 0, "None")
    /\ UNCHANGED <<mgrVars, listeners, pc, callerLocals, held, workerVars,
                   session, nodes_lock, notifyVars, classVars>>

\* Node.connect() of a listed node: its status becomes CONNECTED.
node_connect(c, tag) ==
    /\ pc[c] = "idle"
    /\ tag \in Range(discovered_nodes)
    /\ tag \notin connected
    /\ connected' = connected \cup {tag}
    /\ sent' = NoEvent
    /\ ret' = NoRet
    /\ UNCHANGED <<mgrVars, discovered_nodes, listeners, pc, callerLocals,
                   held, workerVars, session, nodes_lock, notifyVars, classVars>>

\* The names a caller can look up.
Names == {"NODE", "node", "other"}

\* Node.get_name(): the name a node advertised.  Boards of one kind
\* advertise the same name, so the name does not identify a node.
NameOf(tag) == IF tag <= 2 THEN "NODE" ELSE "node"

\* str.lower(), for the names above.
Lower(name) == IF name = "NODE" THEN "node" ELSE name

\* The comparison of line 467: == of two str objects.
NameEqualsMutant(a, b) == Lower(a) = Lower(b)
NameEquals(a, b) == a = b

RECURSIVE FindTag(_, _)
\* The for loop of get_node_with_tag: the first node of the list with the
\* tag, or 0 for None when the loop ends.
FindTag(list, tag) ==
    IF list = <<>> THEN 0
    ELSE IF Head(list) = tag THEN Head(list)
    ELSE FindTag(Tail(list), tag)

RECURSIVE FindName(_, _)
\* The for loop of get_node_with_name.
FindName(list, name) ==
    IF list = <<>> THEN 0
    ELSE IF NameEquals(NameOf(Head(list)), name) THEN Head(list)
    ELSE FindName(Tail(list), name)

\* Manager.get_node_with_tag, under the lock of the node list.
get_node_with_tag(c, tag) ==
    /\ pc[c] = "idle"
    /\ lock_for_object_free
    /\ LET node == FindTag(discovered_nodes, tag)
       IN ret' = [Returns(c, "get_node_with_tag", tag,
                          IF node = 0 THEN "None" ELSE "node")
                     EXCEPT !.node = node]
    /\ sent' = NoEvent
    /\ UNCHANGED <<mgrVars, nodeVars, listeners, pc, callerLocals, held,
                   workerVars, session, nodes_lock, notifyVars, classVars>>

\* Manager.get_node_with_name, under the lock of the node list.
get_node_with_name(c, name) ==
    /\ pc[c] = "idle"
    /\ lock_for_object_free
    /\ LET node == FindName(discovered_nodes, name)
       IN ret' = [Returns(c, "get_node_with_name", 0,
                          IF node = 0 THEN "None" ELSE "node")
                     EXCEPT !.node = node, !.l = name]
    /\ sent' = NoEvent
    /\ UNCHANGED <<mgrVars, nodeVars, listeners, pc, callerLocals, held,
                   workerVars, session, nodes_lock, notifyVars, classVars>>

RECURSIVE RemoveLoop(_, _, _)
\* The for loop of remove_nodes: the list iterator keeps an index into the
\* list, which remove() shortens under it.
RemoveLoop(list, conn, i) ==
    IF i > Len(list) THEN list
    ELSE IF list[i] \notin conn
         THEN RemoveLoop(RemoveFirst(list, list[i]), conn, i + 1)
         ELSE RemoveLoop(list, conn, i + 1)

\* Manager.remove_nodes called directly.
remove_nodes(c) ==
    /\ pc[c] = "idle"
    /\ lock_for_object_free
    /\ discovered_nodes' = RemoveLoop(discovered_nodes, connected, 1)
    /\ sent' = NoEvent
    /\ ret' = Returns(c, "remove_nodes", 0, "None")
    /\ UNCHANGED <<mgrVars, connected, listeners, pc, callerLocals, held,
                   workerVars, session, nodes_lock, notifyVars, classVars>>

\* ------------------------------------------------------------ discovery
\* discover / start_discovery, lines 286-287 and 325-326.
EffectiveTimeout(timeout_s) ==
    IF timeout_s = 0 THEN SCANNING_TIME_DEFAULT_s ELSE timeout_s

\* The guard of discover and start_discovery (lines 284, 323).
ScanRejectedMutant == FALSE
ScanRejected == is_scanning

\* Manager.discover, lines 284-287: the check of is_discovering() and the
\* default of timeout_s.
discover(c, timeout_s) ==
    /\ pc[c] = "idle"
    /\ IF ScanRejected
       THEN /\ ret' = Returns(c, "discover", 0, "False")
            /\ UNCHANGED <<pc, arg>>
       ELSE /\ pc' = [pc EXCEPT ![c] = "d_notify"]
            /\ arg' = [arg EXCEPT ![c] = EffectiveTimeout(timeout_s)]
            /\ ret' = NoRet
    /\ sent' = NoEvent
    /\ UNCHANGED <<mgrVars, nodeVars, listeners, tgt, ctag, inReset, held,
                   workerVars, session, nodes_lock, notifyVars, classVars>>

\* Manager.discover, line 288: _notify_discovery_change(True).
discover_notify(c) ==
    /\ pc[c] = "d_notify"
    /\ is_scanning' = TRUE
    /\ sent' = FanOut("start", c, 0)
    /\ ret' = NoRet
    /\ pc' = [pc EXCEPT ![c] = "d_scan"]
    /\ UNCHANGED <<scanner_thread, nodeVars, listeners, callerLocals, held,
                   workerVars, session, nodes_lock, notifyVars, classVars>>

\* Manager.discover, lines 290 and 293-296: Scanner.scan raises.
discover_fail(c) ==
    /\ pc[c] = "d_scan"
    /\ pc' = [pc EXCEPT ![c] = "idle"]
    /\ arg' = [arg EXCEPT ![c] = 0]
    /\ sent' = NoEvent
    /\ ret' = Returns(c, "discover", arg[c], "BTLEException")
    /\ UNCHANGED <<mgrVars, nodeVars, listeners, tgt, ctag, inReset, held,
                   workerVars, session, nodes_lock, notifyVars, classVars>>

\* Manager.discover, lines 290-292: Scanner.scan returns at its timeout,
\* then _notify_discovery_change(False) and return True.
discover_done(c) ==
    /\ pc[c] = "d_scan"
    /\ is_scanning' = FALSE
    /\ sent' = FanOut("stop", c, 0)
    /\ ret' = Returns(c, "discover", arg[c], "True")
    /\ pc' = [pc EXCEPT ![c] = "idle"]
    /\ arg' = [arg EXCEPT ![c] = 0]
    /\ UNCHANGED <<scanner_thread, nodeVars, listeners, tgt, ctag, inReset, held,
                   workerVars, session, nodes_lock, notifyVars, classVars>>

\* Manager.start_discovery, lines 323-326.
start_discovery(c, timeout_s) ==
    /\ pc[c] = "idle"
    /\ IF ScanRejected
       THEN /\ ret' = Returns(c, "start_discovery", 0, "False")
            /\ UNCHANGED <<pc, arg>>
       ELSE /\ pc' = [pc EXCEPT ![c] = "s_notify"]
            /\ arg' = [arg EXCEPT ![c] = EffectiveTimeout(timeout_s)]
            /\ ret' = NoRet
    /\ sent' = NoEvent
    /\ UNCHANGED <<mgrVars, nodeVars, listeners, tgt, ctag, inReset, held,
                   workerVars, session, nodes_lock, notifyVars, classVars>>

\* Manager.start_discovery, line 327: _notify_discovery_change(True).
start_notify(c) ==
    /\ pc[c] = "s_notify"
    /\ is_scanning' = TRUE
    /\ sent' = FanOut("start", c, 0)
    /\ ret' = NoRet
    /\ pc' = [pc EXCEPT ![c] = "s_create"]
    /\ UNCHANGED <<scanner_thread, nodeVars, listeners, callerLocals, held,
                   workerVars, session, nodes_lock, notifyVars, classVars>>

\* The worker objects that are garbage once self._scanner_thread is
\* reassigned: never created, or terminated and held by no caller's stop().
FreeWorkers ==
    {w \in Workers : wpc[w] \in {"none", "dead"} /\ \A c \in Callers : tgt[c] # w}

\* Manager.start_discovery, line 328, and _StoppableScanner.__init__.  The
\* new object takes the place of a garbage one (MaxWorkers bounds the
\* objects that are alive or referenced at one time).
start_create(c) ==
    /\ pc[c] = "s_create"
    /\ FreeWorkers # {}
    /\ LET w == CHOOSE x \in FreeWorkers : \A y \in FreeWorkers : x <= y IN
        /\ scanner_thread' = w
        /\ wpc' = [wpc EXCEPT ![w] = "new"]
        /\ wk' = [wk EXCEPT ![w] = [NewWorker EXCEPT !.timeout_s = arg[c]]]
        /\ session' = [session EXCEPT ![w] = "open"]
    /\ pc' = [pc EXCEPT ![c] = "s_start"]
    /\ arg' = [arg EXCEPT ![c] = 0]
    /\ sent' = NoEvent
    /\ ret' = NoRet
    /\ UNCHANGED <<is_scanning, nodeVars, listeners, tgt, ctag, inReset, held,
                   wtag, nodes_lock, notifyVars, classVars>>

\* Manager.start_discovery, lines 329-330: self._scanner_thread.start().
\* Thread.start raises RuntimeError for a thread that was started before.
start_thread(c) ==
    /\ pc[c] = "s_start"
    /\ LET w == scanner_thread IN
        IF wpc[w] = "new"
        THEN /\ wpc' = [wpc EXCEPT ![w] = "r_begin"]
             /\ ret' = Returns(c, "start_discovery", w, "True")
        ELSE /\ ret' = Returns(c, "start_discovery", w, "RuntimeError")
             /\ UNCHANGED wpc
    /\ pc' = [pc EXCEPT ![c] = "idle"]
    /\ sent' = NoEvent
    /\ UNCHANGED <<mgrVars, nodeVars, listeners, callerLocals, held, wk, wtag,
                   session, nodes_lock, notifyVars, classVars>>

\* What a call of stop_discovery does after it has ended (normally or by an
\* exception): reset_discovery goes on to remove_nodes only after a normal
\* return (lines 376-378).
AfterStop(c, normal) ==
    IF inReset[c] /\ normal THEN "rn_body" ELSE "idle"

\* Manager.stop_discovery, lines 349 and 354: the check of is_discovering().
stop_check(c) ==
    IF is_scanning
    THEN /\ pc' = [pc EXCEPT ![c] = "t_stop"]
         /\ ret' = NoRet
         /\ UNCHANGED inReset
    ELSE /\ pc' = [pc EXCEPT ![c] = AfterStop(c, TRUE)]
         /\ ret' = Returns(c, "stop_discovery", 0, "False")
         /\ UNCHANGED inReset

\* Manager.stop_discovery called by a caller.
stop_discovery(c) ==
    /\ pc[c] = "idle"
    /\ stop_check(c)
    /\ sent' = NoEvent
    /\ UNCHANGED <<mgrVars, nodeVars, listeners, tgt, arg, ctag, held,
                   workerVars, session, nodes_lock, notifyVars, classVars>>

\* Manager.reset_discovery, line 376: its own check of is_discovering().
reset_discovery(c) ==
    /\ pc[c] = "idle"
    /\ IF is_scanning
       THEN /\ pc' = [pc EXCEPT ![c] = "t_check"]
            /\ inReset' = [inReset EXCEPT ![c] = TRUE]
       ELSE /\ pc' = [pc EXCEPT ![c] = "rn_body"]
            /\ inReset' = [inReset EXCEPT ![c] = TRUE]
    /\ sent' = NoEvent
    /\ ret' = NoRet
    /\ UNCHANGED <<mgrVars, nodeVars, listeners, tgt, arg, ctag, held,
                   workerVars, session, nodes_lock, notifyVars, classVars>>

\* Manager.reset_discovery, line 377: the stop_discovery it calls.
reset_stop(c) ==
    /\ pc[c] = "t_check"
    /\ stop_check(c)
    /\ sent' = NoEvent
    /\ UNCHANGED <<mgrVars, nodeVars, listeners, tgt, arg, ctag, held,
                   workerVars, session, nodes_lock, notifyVars, classVars>>

\* Manager.reset_discovery, line 378: remove_nodes().
reset_remove(c) ==
    /\ pc[c] = "rn_body"
    /\ lock_for_object_free
    /\ discovered_nodes' = RemoveLoop(discovered_nodes, connected, 1)
    /\ pc' = [pc EXCEPT ![c] = "idle"]
    /\ inReset' = [inReset EXCEPT ![c] = FALSE]
    /\ sent' = NoEvent
    /\ ret' = Returns(c, "reset_discovery", 0, "None")
    /\ UNCHANGED <<mgrVars, connected, listeners, tgt, arg, ctag, held,
                   workerVars, session, nodes_lock, notifyVars, classVars>>

\* A call of stop_discovery ends with exception v.
StopRaises(c, w, v) ==
    /\ pc' = [pc EXCEPT ![c] = "idle"]
    /\ tgt' = [tgt EXCEPT ![c] = 0]
    /\ inReset' = [inReset EXCEPT ![c] = FALSE]
    /\ ret' = Returns(c, "stop_discovery", w, v)

\* Manager.stop_discovery, line 350, and _StoppableScanner.stop, line 175:
\* self._scanner_thread.stop() sets the worker's stop flag.
stop_set_flag(c) ==
    /\ pc[c] = "t_stop"
    /\ LET w == scanner_thread IN
        IF w = 0
        THEN /\ StopRaises(c, 0, "AttributeError")
             /\ UNCHANGED <<wk, session>>
        ELSE /\ wk' = [wk EXCEPT ![w].stop_called = TRUE,
                                 ![w].stop_req = @ \/ wpc[w] # "new"]
             /\ session' = [session EXCEPT
                               ![w] = IF @ = "open" THEN "stop_called" ELSE @]
             /\ tgt' = [tgt EXCEPT ![c] = w]
             /\ pc' = [pc EXCEPT ![c] = "t_wait"]
             /\ ret' = NoRet
             /\ UNCHANGED inReset
    /\ sent' = NoEvent
    /\ UNCHANGED <<mgrVars, nodeVars, listeners, arg, ctag, held, wpc, wtag,
                   nodes_lock, notifyVars, classVars>>

\* _StoppableScanner.stop, lines 176-177: one evaluation of the loop test
\* that ends the busy-wait (a test that does not end it changes nothing).
\* self._exc does not exist before run() has executed line 152.
stop_wait(c) ==
    /\ pc[c] = "t_wait"
    /\ LET w == tgt[c] IN
        \/ /\ wk[w].process_done \/ wk[w].exc = "exc_info"
           /\ pc' = [pc EXCEPT ![c] = "t_clear"]
           /\ ret' = NoRet
           /\ UNCHANGED <<tgt, inReset>>
        \/ /\ ~wk[w].process_done
           /\ wk[w].exc = "unset"
           /\ StopRaises(c, w, "AttributeError")
    /\ sent' = NoEvent
    /\ UNCHANGED <<mgrVars, nodeVars, listeners, arg, ctag, held, workerVars,
                   session, nodes_lock, notifyVars, classVars>>

\* _StoppableScanner.stop, line 179: self._exc = None.
ExcAfterStopBegins(old) == "None"

stop_clear(c) ==
    /\ pc[c] = "t_clear"
    /\ wk' = [wk EXCEPT ![tgt[c]].exc = ExcAfterStopBegins(@)]
    /\ pc' = [pc EXCEPT ![c] = "t_drv"]
    /\ sent' = NoEvent
    /\ ret' = NoRet
    /\ UNCHANGED <<mgrVars, nodeVars, listeners, callerLocals, held, wpc, wtag,
                   session, nodes_lock, notifyVars, classVars>>

\* _StoppableScanner.stop, lines 180-185: Scanner.stop() returns or raises.
stop_driver(c, ok) ==
    /\ pc[c] = "t_drv"
    /\ wk' = [wk EXCEPT ![tgt[c]].exc = IF ok THEN @ ELSE "exc_info",
                        ![tgt[c]].drv_stops = DriverStopped(@)]
    /\ pc' = [pc EXCEPT ![c] = "t_join"]
    /\ sent' = NoEvent
    /\ ret' = NoRet
    /\ UNCHANGED <<mgrVars, nodeVars, listeners, callerLocals, held, wpc, wtag,
                   session, nodes_lock, notifyVars, classVars>>

\* Thread.join returns once the thread has terminated.
JoinReturnsMutant(w) == TRUE
JoinReturns(w) == wpc[w] = "dead"

\* Manager.stop_discovery, line 351, and _StoppableScanner.join: wait for
\* the thread self._scanner_thread names now, then raise if self._exc.
\* Thread.join raises RuntimeError for a thread that was never started.
stop_join(c) ==
    /\ pc[c] = "t_join"
    /\ LET w == scanner_thread IN
        \/ /\ wpc[w] = "new"
           /\ StopRaises(c, w, "RuntimeError")
        \/ /\ wpc[w] # "new"
           /\ JoinReturns(w)
           /\ IF wk[w].exc = "exc_info"
              THEN StopRaises(c, w, "BTLEException")
              ELSE /\ pc' = [pc EXCEPT ![c] = "t_notify"]
                   /\ tgt' = [tgt EXCEPT ![c] = w]
                   /\ ret' = NoRet
                   /\ UNCHANGED inReset
    /\ sent' = NoEvent
    /\ UNCHANGED <<mgrVars, nodeVars, listeners, arg, ctag, held, workerVars,
                   session, nodes_lock, notifyVars, classVars>>

\* Manager.stop_discovery, lines 352-353: _notify_discovery_change(False)
\* and return True.
stop_notify(c) ==
    /\ pc[c] = "t_notify"
    /\ is_scanning' = FALSE
    /\ sent' = FanOut("stop", c, 0)
    /\ session' = [session EXCEPT ![tgt[c]] = "stop_notified"]
    /\ ret' = Returns(c, "stop_discovery", tgt[c], "True")
    /\ pc' = [pc EXCEPT ![c] = AfterStop(c, TRUE)]
    /\ tgt' = [tgt EXCEPT ![c] = 0]
    /\ UNCHANGED <<scanner_thread, nodeVars, listeners, arg, ctag, inReset,
                   held, workerVars, nodes_lock, notifyVars, classVars>>

\* --------------------------------------------------------- scan delegate
\* _ScannerDelegate.handleDiscovery, lines 104-112, for an advertisement of
\* address addr; malformed: Node(scan_entry) or update_advertising_data
\* raises, which line 114 swallows.  TRUE when add_node is called next.
CallsAddNode(addr, malformed) ==
    /\ ~TagPresent(discovered_nodes, addr)
    /\ ~malformed

\* The exceptions Node(scan_entry) and update_advertising_data raise for a
\* payload that is malformed.
PayloadErrors == {"BTLEException", "InvalidBLEAdvertisingDataException"}

\* The except clause of line 114.
SwallowedMutant(e) == e = "BTLEException"
Swallowed(e) == e \in {"BTLEException", "InvalidBLEAdvertisingDataException"}

\* handleDiscovery returns without calling add_node: by the return of line
\* 109 after the update of the node with that tag, or through the except
\* clause of line 114 when the payload is malformed.
HandleReturns(thread, addr, malformed, e) ==
    [Returns(thread, "handleDiscovery", addr,
             IF malformed /\ ~Swallowed(e) THEN e ELSE "None")
        EXCEPT !.l = IF malformed THEN "malformed" ELSE "known"]

\* Manager.add_node as called by handleDiscovery: the critical section.
\* TRUE when the node was appended (the notification follows).
DelegateAppends(tag) == ~TagPresent(discovered_nodes, tag)

\* handleDiscovery in the thread of a synchronous discover.
discover_handle(c, addr, malformed) ==
    /\ pc[c] = "d_scan"
    /\ IF CallsAddNode(addr, malformed)
       THEN /\ pc' = [pc EXCEPT ![c] = "d_add"]
            /\ ctag' = [ctag EXCEPT ![c] = addr]
            /\ ret' = NoRet
       ELSE /\ \E e \in PayloadErrors :
                  ret' = HandleReturns(c, addr, malformed, e)
            /\ UNCHANGED <<pc, ctag>>
    /\ sent' = NoEvent
    /\ UNCHANGED <<mgrVars, nodeVars, listeners, tgt, arg, inReset, held,
                   workerVars, session, nodes_lock, notifyVars, classVars>>

discover_add(c) ==
    /\ pc[c] = "d_add"
    /\ lock_for_object_free
    /\ IF DelegateAppends(ctag[c])
       THEN /\ discovered_nodes' = Append(discovered_nodes, ctag[c])
            /\ pc' = [pc EXCEPT ![c] = "d_new"]
            /\ UNCHANGED ctag
       ELSE /\ pc' = [pc EXCEPT ![c] = "d_scan"]
            /\ ctag' = [ctag EXCEPT ![c] = 0]
            /\ UNCHANGED discovered_nodes
    /\ sent' = NoEvent
    /\ ret' = NoRet
    /\ UNCHANGED <<mgrVars, connected, listeners, tgt, arg, inReset, held,
                   workerVars, session, nodes_lock, notifyVars, classVars>>

discover_new(c) ==
    /\ pc[c] = "d_new"
    /\ sent' = FanOut("node", c, 0)
    /\ ret' = NoRet
    /\ pc' = [pc EXCEPT ![c] = "d_scan"]
    /\ ctag' = [ctag EXCEPT ![c] = 0]
    /\ UNCHANGED <<mgrVars, nodeVars, listeners, tgt, arg, inReset, held,
                   workerVars, session, nodes_lock, notifyVars, classVars>>

\* handleDiscovery in a scan-worker thread, during Scanner.process.
run_handle(w, addr, malformed) ==
    /\ wpc[w] = "r_proc"
    /\ IF CallsAddNode(addr, malformed)
       THEN /\ wpc' = [wpc EXCEPT ![w] = "r_add"]
            /\ wtag' = [wtag EXCEPT ![w] = addr]
            /\ ret' = NoRet
       ELSE /\ \E e \in PayloadErrors :
                  ret' = HandleReturns("worker", addr, malformed, e)
            /\ UNCHANGED <<wpc, wtag>>
    /\ sent' = NoEvent
    /\ UNCHANGED <<mgrVars, nodeVars, listeners, pc, callerLocals, held, wk,
                   session, nodes_lock, notifyVars, classVars>>

run_add(w) ==
    /\ wpc[w] = "r_add"
    /\ lock_for_object_free
    /\ IF DelegateAppends(wtag[w])
       THEN /\ discovered_nodes' = Append(discovered_nodes, wtag[w])
            /\ wpc' = [wpc EXCEPT ![w] = "r_new"]
            /\ UNCHANGED wtag
       ELSE /\ wpc' = [wpc EXCEPT ![w] = "r_proc"]
            /\ wtag' = [wtag EXCEPT ![w] = 0]
            /\ UNCHANGED discovered_nodes
    /\ sent' = NoEvent
    /\ ret' = NoRet
    /\ UNCHANGED <<mgrVars, connected, listeners, pc, callerLocals, held, wk,
                   session, nodes_lock, notifyVars, classVars>>

run_new(w) ==
    /\ wpc[w] = "r_new"
    /\ sent' = FanOut("node", "none", w)
    /\ ret' = NoRet
    /\ wpc' = [wpc EXCEPT ![w] = "r_proc"]
    /\ wtag' = [wtag EXCEPT ![w] = 0]
    /\ UNCHANGED <<mgrVars, nodeVars, listeners, pc, callerLocals, held, wk,
                   session, nodes_lock, notifyVars, classVars>>

\* ------------------------------------------------------------ scan worker
\* _StoppableScanner.run, lines 148-150.
run_clear(w) ==
    /\ wpc[w] = "r_begin"
    /\ wk' = [wk EXCEPT ![w].stop_called = FALSE, ![w].process_done = FALSE]
    /\ wpc' = [wpc EXCEPT ![w] = "r_init"]
    /\ sent' = NoEvent
    /\ ret' = NoRet
    /\ UNCHANGED <<mgrVars, nodeVars, listeners, pc, callerLocals, held, wtag,
                   session, nodes_lock, notifyVars, classVars>>

\* _StoppableScanner.run, lines 152-154 and 166-170: self._exc = None, then
\* Scanner.start returns, or raises and the exception is saved and run()
\* returns (the thread terminates).
run_init(w, ok) ==
    /\ wpc[w] = "r_init"
    /\ IF ok
       THEN /\ wk' = [wk EXCEPT ![w].exc = "None", ![w].elapsed = 0]
            /\ wpc' = [wpc EXCEPT ![w] = "r_proc"]
       ELSE /\ wk' = [wk EXCEPT ![w].exc = "exc_info"]
            /\ wpc' = [wpc EXCEPT ![w] = "dead"]
    /\ sent' = NoEvent
    /\ ret' = NoRet
    /\ UNCHANGED <<mgrVars, nodeVars, listeners, pc, callerLocals, held, wtag,
                   session, nodes_lock, notifyVars, classVars>>

\* _StoppableScanner.run, lines 157 and 166-170: Scanner.process raises, the
\* exception is saved and run() returns.
run_process_fail(w) ==
    /\ wpc[w] = "r_proc"
    /\ wk' = [wk EXCEPT ![w].exc = "exc_info", ![w].elapsed = 0]
    /\ wpc' = [wpc EXCEPT ![w] = "dead"]
    /\ sent' = NoEvent
    /\ ret' = NoRet
    /\ UNCHANGED <<mgrVars, nodeVars, listeners, pc, callerLocals, held, wtag,
                   session, nodes_lock, notifyVars, classVars>>

\* _StoppableScanner.run, lines 157-165: Scanner.process returns at the end
\* of its slice, then the tests of the stop flag (run() returns and the
\* thread terminates) and of the timeout (self.stop() is next).
run_slice(w) ==
    /\ wpc[w] = "r_proc"
    /\ LET e == wk[w].elapsed + SCANNING_TIME_PROCESS_s IN
        IF wk[w].stop_called
        THEN /\ wk' = [wk EXCEPT ![w].elapsed = 0, ![w].process_done = TRUE]
             /\ wpc' = [wpc EXCEPT ![w] = "dead"]
        ELSE IF e >= wk[w].timeout_s
        THEN /\ wk' = [wk EXCEPT ![w].elapsed = 0, ![w].process_done = TRUE,
                                 ![w].timed_out = TRUE]
             /\ wpc' = [wpc EXCEPT ![w] = "r_selfstop"]
        ELSE /\ wk' = [wk EXCEPT ![w].elapsed = e]
             /\ UNCHANGED wpc
    /\ sent' = NoEvent
    /\ ret' = NoRet
    /\ UNCHANGED <<mgrVars, nodeVars, listeners, pc, callerLocals, held, wtag,
                   session, nodes_lock, notifyVars, classVars>>

\* _StoppableScanner.run, line 164: self.stop(), lines 175-179 (the loop
\* test is true at once: process_done is set).
run_selfstop(w) ==
    /\ wpc[w] = "r_selfstop"
    /\ wk' = [wk EXCEPT ![w].stop_called = TRUE,
                        ![w].exc = ExcAfterStopBegins(@)]
    /\ wpc' = [wpc EXCEPT ![w] = "r_drv"]
    /\ sent' = NoEvent
    /\ ret' = NoRet
    /\ UNCHANGED <<mgrVars, nodeVars, listeners, pc, callerLocals, held, wtag,
                   session, nodes_lock, notifyVars, classVars>>

\* self.stop(), lines 180-185, in the worker: Scanner.stop returns or raises;
\* then run() returns and the thread terminates.
run_driver_stop(w, ok) ==
    /\ wpc[w] = "r_drv"
    /\ wk' = [wk EXCEPT ![w].exc = IF ok THEN @ ELSE "exc_info",
                        ![w].drv_stops = DriverStopped(@)]
    /\ wpc' = [wpc EXCEPT ![w] = "dead"]
    /\ sent' = NoEvent
    /\ ret' = NoRet
    /\ UNCHANGED <<mgrVars, nodeVars, listeners, pc, callerLocals, held, wtag,
                   session, nodes_lock, notifyVars, classVars>>

\* ---------------------------------------------------------- specifications
\* ------------------------------------------------- notification loops
\* The loops of _notify_discovery_change and _notify_new_node_discovered,
\* one listener per step, with callbacks that return, raise or never return.

\* Lines 393 and 404: listener.on_...(...) is the argument expression of
\* submit, so the thread that evaluates it, the notifying thread, runs the
\* callback; what submit receives is the callback's return value.
CallbackRunner(notifier) == notifier

Callback(kind, c, l, outcome) ==
    [kind |-> kind, byCaller |-> CallbackRunner(c), byWorker |-> 0,
     to |-> {l}, outcome |-> outcome]

\* The Manager call that a notification loop belongs to.
OpOf(op) == IF op = "add_node" THEN "add_node" ELSE "discover"

\* Manager.add_node, line 422: _notify_new_node_discovered begins.
notify_add_node(c) ==
    /\ pc[c] = "an_notify"
    /\ fan' = [fan EXCEPT ![c] = NewFan("node", "add_node")]
    /\ pc' = [pc EXCEPT ![c] = "n_loop"]
    /\ sent' = NoEvent
    /\ ret' = NoRet
    /\ UNCHANGED <<mgrVars, nodeVars, listeners, callerLocals, held,
                   workerVars, session, nodes_lock, tasks, classVars>>

\* Manager.discover, line 288, and _notify_discovery_change, line 390.
notify_discover_start(c) ==
    /\ pc[c] = "d_notify"
    /\ is_scanning' = TRUE
    /\ fan' = [fan EXCEPT ![c] = NewFan("start", "discover_start")]
    /\ pc' = [pc EXCEPT ![c] = "n_loop"]
    /\ sent' = NoEvent
    /\ ret' = NoRet
    /\ UNCHANGED <<scanner_thread, nodeVars, listeners, callerLocals, held,
                   workerVars, session, nodes_lock, tasks, classVars>>

\* Manager.add_node called by handleDiscovery during discover, line 422.
notify_delegate(c) ==
    /\ pc[c] = "d_new"
    /\ fan' = [fan EXCEPT ![c] = NewFan("node", "delegate")]
    /\ pc' = [pc EXCEPT ![c] = "n_loop"]
    /\ sent' = NoEvent
    /\ ret' = NoRet
    /\ UNCHANGED <<mgrVars, nodeVars, listeners, callerLocals, held,
                   workerVars, session, nodes_lock, tasks, classVars>>

\* Manager.discover, line 291, and _notify_discovery_change, line 390.
notify_discover_stop(c) ==
    /\ pc[c] = "d_scan"
    /\ is_scanning' = FALSE
    /\ fan' = [fan EXCEPT ![c] = NewFan("stop", "discover_stop")]
    /\ pc' = [pc EXCEPT ![c] = "n_loop"]
    /\ sent' = NoEvent
    /\ ret' = NoRet
    /\ UNCHANGED <<scanner_thread, nodeVars, listeners, callerLocals, held,
                   workerVars, session, nodes_lock, tasks, classVars>>

\* Lines 391-393 / 402-404, one iteration: the list iterator yields the
\* listener at its index, the callback runs, and its return value is
\* submitted.  An exception of the callback is no BTLEException, so neither
\* handleDiscovery (line 114) nor discover (line 293) catches it.
notify_call(c, outcome) ==
    /\ pc[c] = "n_loop"
    /\ fan[c].i <= Len(listeners)
    /\ sent' = Callback(fan[c].kind, c, listeners[fan[c].i], outcome)
    /\ CASE outcome = "returns" ->
              /\ tasks < MaxPending
              /\ tasks' = tasks + 1
              /\ fan' = [fan EXCEPT ![c].i = @ + 1,
                                    ![c].seen = Append(@, listeners[fan[c].i])]
              /\ ret' = NoRet
              /\ UNCHANGED <<pc, ctag, arg>>
         [] outcome = "raises" ->
              /\ pc' = [pc EXCEPT ![c] = "idle"]
              /\ fan' = [fan EXCEPT ![c] = NoFan]
              /\ ctag' = [ctag EXCEPT ![c] = 0]
              /\ arg' = [arg EXCEPT ![c] = 0]
              /\ ret' = Returns(c, OpOf(fan[c].op), 0, "Exception")
              /\ UNCHANGED tasks
         [] outcome = "hangs" ->
              /\ pc' = [pc EXCEPT ![c] = "n_hung"]
              /\ ret' = NoRet
              /\ UNCHANGED <<fan, tasks, ctag, arg>>
    /\ UNCHANGED <<mgrVars, nodeVars, listeners, tgt, inReset, held,
                   workerVars, session, nodes_lock, classVars>>

\* The loop ends (the iterator's index is past the end of the list) and the
\* Manager call goes on: add_node line 423, discover lines 289-290 and 292.
notify_end(c) ==
    /\ pc[c] = "n_loop"
    /\ fan[c].i > Len(listeners)
    /\ fan' = [fan EXCEPT ![c] = NoFan]
    /\ CASE fan[c].op = "add_node" ->
              /\ pc' = [pc EXCEPT ![c] = "idle"]
              /\ ret' = Returns(c, "add_node", ctag[c], "True")
              /\ ctag' = [ctag EXCEPT ![c] = 0]
              /\ UNCHANGED arg
         [] fan[c].op = "discover_start" ->
              /\ pc' = [pc EXCEPT ![c] = "d_scan"]
              /\ ret' = NoRet
              /\ UNCHANGED <<ctag, arg>>
         [] fan[c].op = "delegate" ->
              /\ pc' = [pc EXCEPT ![c] = "d_scan"]
              /\ ret' = NoRet
              /\ ctag' = [ctag EXCEPT ![c] = 0]
              /\ UNCHANGED arg
         [] fan[c].op = "discover_stop" ->
              /\ pc' = [pc EXCEPT ![c] = "idle"]
              /\ ret' = Returns(c, "discover", arg[c], "True")
              /\ arg' = [arg EXCEPT ![c] = 0]
              /\ UNCHANGED ctag
    /\ sent' = NoEvent
    /\ UNCHANGED <<mgrVars, nodeVars, listeners, tgt, inReset, held,
                   workerVars, session, nodes_lock, tasks, classVars>>

\* A thread of Manager._thread_pool takes a submitted task: the task is the
\* callback's return value, not a callable, so calling it fails inside the
\* pool thread (the Future keeps the TypeError) and no callback runs.
pool_run ==
    /\ tasks > 0
    /\ tasks' = tasks - 1
    /\ sent' = NoEvent
    /\ ret' = NoRet
    /\ UNCHANGED <<mgrVars, nodeVars, listeners, pc, callerLocals, held,
                   workerVars, session, nodes_lock, fan, classVars>>

\* ---------------------------------------------------- class-level state
\* The names bound in the global namespace of the module manager.py: its
\* imports (lines 38-52) and its classes.
ModuleGlobals ==
    {"ABCMeta", "abstractmethod", "ThreadPoolExecutor", "threading",
     "logging", "Scanner", "DefaultDelegate", "BTLEException", "Node",
     "FeatureCharacteristic", "InvalidFeatureBitMaskException",
     "InvalidBLEAdvertisingDataException", "lock", "lock_for_object",
     "_ScannerDelegate", "_StoppableScanner", "Manager", "ManagerListener"}

\* Evaluating a global name that is not bound raises NameError.
NameDefined(name) == name \in ModuleGlobals

Keys(d) == {p[1] : p \in d}
DictGet(d, k) == IF k \in Keys(d) THEN (CHOOSE p \in d : p[1] = k)[2] ELSE "None"
DictSet(d, k, v) == {p \in d : p[1] # k} \cup {<<k, v>>}
DictPop(d, k) == {p \in d : p[1] # k}

\* mask << 1
ShiftLeft(mask) == {k + 1 : k \in mask}

RECURSIVE ConsumeMasks(_, _, _, _)
\* Manager.add_features_to_node, lines 524-530: the loop over the 32
\* single-bit masks.
ConsumeMasks(decoder, to_check, mask, i) ==
    IF i = 32 THEN [decoder |-> decoder, to_check |-> to_check]
    ELSE LET feature_class == DictGet(to_check, mask) IN
         IF feature_class # "None"
         THEN ConsumeMasks(DictSet(decoder, mask, feature_class),
                           DictPop(to_check, mask), ShiftLeft(mask), i + 1)
         ELSE ConsumeMasks(decoder, to_check, ShiftLeft(mask), i + 1)

\* Manager.add_features_to_node.  Line 514 evaluates the global name
\* `manager` first; lines 516-534 follow only if that does not raise.
add_features_to_node(c, device_id, mask_to_features_dic) ==
    /\ pc[c] = "idle"
    /\ IF ~NameDefined("manager")
       THEN /\ ret' = [Returns(c, "add_features_to_node", device_id,
                                "NameError")
                           EXCEPT !.x = mask_to_features_dic]
            /\ UNCHANGED features_decoder_dic
       ELSE LET decoder == IF device_id \in Keys(features_decoder_dic)
                           THEN DictGet(features_decoder_dic, device_id)
                           ELSE {}
                r == ConsumeMasks(decoder, mask_to_features_dic, Bit(0), 0)
            IN /\ features_decoder_dic' =
                     DictSet(features_decoder_dic, device_id, r.decoder)
               /\ ret' = [Returns(c, "add_features_to_node", device_id,
                                   IF r.to_check # {}
                                   THEN "InvalidFeatureBitMaskException"
                                   ELSE "None")
                              EXCEPT !.x = mask_to_features_dic]
    /\ sent' = NoEvent
    /\ UNCHANGED <<mgrVars, nodeVars, listeners, pc, callerLocals, held,
                   workerVars, session, nodes_lock, notifyVars,
                   Manager_INSTANCE, constructed, mine, default_dic, got>>

\* dict.copy(): a new dictionary object with the same entries.
DictCopyMutant(ref) == ref
DictCopy(ref) == "own"

\* The entries of the dictionary a caller holds, as it sees them now.
HeldDict(c) ==
    CASE got[c].ref = "own" -> got[c].val
      [] got[c].ref = "default" -> default_dic
      [] got[c].ref = "registered" -> DictGet(features_decoder_dic, got[c].id)
      [] OTHER -> {}

\* Manager.get_node_features, lines 548-550.
get_node_features(c, device_id) ==
    /\ pc[c] = "idle"
    /\ got' = [got EXCEPT ![c] =
                  IF device_id \in Keys(features_decoder_dic)
                  THEN [ref |-> DictCopy("registered"), id |-> device_id,
                        val |-> DictGet(features_decoder_dic, device_id)]
                  ELSE [ref |-> DictCopy("default"), id |-> device_id,
                        val |-> default_dic]]
    /\ ret' = Returns(c, "get_node_features", device_id, "dict")
    /\ sent' = NoEvent
    /\ UNCHANGED <<mgrVars, nodeVars, listeners, pc, callerLocals, held,
                   workerVars, session, nodes_lock, notifyVars,
                   Manager_INSTANCE, constructed, mine, features_decoder_dic,
                   default_dic>>

\* A caller changes the dictionary it got: d[mask] = feature, or d.pop(mask).
caller_change(c, mask) ==
    /\ pc[c] = "idle"
    /\ got[c].ref # "none"
    /\ LET d == HeldDict(c)
           new == IF mask \in Keys(d) THEN DictPop(d, mask)
                  ELSE DictSet(d, mask, "Mine")
       IN CASE got[c].ref = "own" ->
                 /\ got' = [got EXCEPT ![c].val = new]
                 /\ UNCHANGED <<default_dic, features_decoder_dic>>
            [] got[c].ref = "default" ->
                 /\ default_dic' = new
                 /\ UNCHANGED <<got, features_decoder_dic>>
            [] got[c].ref = "registered" ->
                 /\ features_decoder_dic' =
                       DictSet(features_decoder_dic, got[c].id, new)
                 /\ UNCHANGED <<got, default_dic>>
    /\ ret' = Returns(c, "change", 0, "None")
    /\ sent' = NoEvent
    /\ UNCHANGED <<mgrVars, nodeVars, listeners, pc, callerLocals, held,
                   workerVars, session, nodes_lock, notifyVars,
                   Manager_INSTANCE, constructed, mine>>

\* A caller drops the dictionary it got.
caller_drop(c) ==
    /\ pc[c] = "idle"
    /\ got[c].ref # "none"
    /\ got' = [got EXCEPT ![c] = NoDict]
    /\ ret' = NoRet
    /\ sent' = NoEvent
    /\ UNCHANGED <<mgrVars, nodeVars, listeners, pc, callerLocals, held,
                   workerVars, session, nodes_lock, notifyVars,
                   Manager_INSTANCE, constructed, mine, features_decoder_dic,
                   default_dic>>

\* Manager.__init__, lines 226-227: the test that makes construction fail.
AlreadyExists == Manager_INSTANCE # 0

\* Manager() called by a client: __init__, lines 224-248.  _INSTANCE is
\* assigned only by instance(), line 258.
Manager_init(c) ==
    /\ pc[c] = "idle"
    /\ IF AlreadyExists
       THEN /\ ret' = Returns(c, "Manager", 0, "Exception")
            /\ UNCHANGED constructed
       ELSE /\ constructed < MaxManagers
            /\ constructed' = constructed + 1
            /\ ret' = Returns(c, "Manager", constructed + 1, "Manager")
    /\ sent' = NoEvent
    /\ UNCHANGED <<mgrVars, nodeVars, listeners, pc, callerLocals, held,
                   workerVars, session, nodes_lock, notifyVars,
                   Manager_INSTANCE, mine, features_decoder_dic, default_dic,
                   got>>

\* Manager.instance, line 257: if self._INSTANCE is None.
instance(c) ==
    /\ pc[c] = "idle"
    /\ pc' = [pc EXCEPT ![c] = IF Manager_INSTANCE = 0 THEN "i_new"
                               ELSE "i_ret"]
    /\ ret' = NoRet
    /\ sent' = NoEvent
    /\ UNCHANGED <<mgrVars, nodeVars, listeners, callerLocals, held,
                   workerVars, session, nodes_lock, notifyVars, classVars>>

\* Manager.instance, line 258, right-hand side: Manager().
instance_new(c) ==
    /\ pc[c] = "i_new"
    /\ IF AlreadyExists
       THEN /\ pc' = [pc EXCEPT ![c] = "idle"]
            /\ ret' = Returns(c, "instance", 0, "Exception")
            /\ UNCHANGED <<constructed, mine>>
       ELSE /\ constructed < MaxManagers
            /\ constructed' = constructed + 1
            /\ mine' = [mine EXCEPT ![c] = constructed + 1]
            /\ pc' = [pc EXCEPT ![c] = "i_set"]
            /\ ret' = NoRet
    /\ sent' = NoEvent
    /\ UNCHANGED <<mgrVars, nodeVars, listeners, callerLocals, held,
                   workerVars, session, nodes_lock, notifyVars,
                   Manager_INSTANCE, features_decoder_dic, default_dic, got>>

\* Manager.instance, line 258: the assignment to self._INSTANCE.
instance_set(c) ==
    /\ pc[c] = "i_set"
    /\ Manager_INSTANCE' = mine[c]
    /\ mine' = [mine EXCEPT ![c] = 0]
    /\ pc' = [pc EXCEPT ![c] = "i_ret"]
    /\ ret' = NoRet
    /\ sent' = NoEvent
    /\ UNCHANGED <<mgrVars, nodeVars, listeners, callerLocals, held,
                   workerVars, session, nodes_lock, notifyVars, constructed,
                   features_decoder_dic, default_dic, got>>

\* Manager.instance, line 259: return self._INSTANCE.
instance_ret(c) ==
    /\ pc[c] = "i_ret"
    /\ pc' = [pc EXCEPT ![c] = "idle"]
    /\ ret' = Returns(c, "instance", Manager_INSTANCE, "Manager")
    /\ sent' = NoEvent
    /\ UNCHANGED <<mgrVars, nodeVars, listeners, callerLocals, held,
                   workerVars, session, nodes_lock, notifyVars, classVars>>

NextNodes ==
    \E c \in Callers :
        \/ \E l \in ListenerArgs : add_listener(c, l)
        \/ \E l \in ListenerArgs : remove_listener(c, l)
        \/ \E tag \in Tags : add_node(c, tag)
        \/ add_node_check(c)
        \/ add_node_append(c)
        \/ add_node_notify(c)
        \/ get_nodes(c)
        \/ caller_pop(c)
        \/ \E tag \in Tags : node_connect(c, tag)
        \/ remove_nodes(c)
        \/ reset_discovery(c)
        \/ reset_remove(c)
        \/ \E tag \in Tags : get_node_with_tag(c, tag)
        \/ \E name \in Names : get_node_with_name(c, name)

SpecNodes == Init /\ [][NextNodes]_vars

Next ==
    \/ \E c \in Callers :
        \/ \E l \in Listeners : add_listener(c, l)
        \/ \E t \in DiscoverTimeouts : discover(c, t)
        \/ discover_notify(c)
        \/ discover_fail(c)
        \/ discover_done(c)
        \/ \E a \in Addrs, m \in BOOLEAN : discover_handle(c, a, m)
        \/ discover_add(c)
        \/ discover_new(c)
        \/ \E t \in TimeoutInputs : start_discovery(c, t)
        \/ start_notify(c)
        \/ start_create(c)
        \/ start_thread(c)
        \/ stop_discovery(c)
        \/ stop_set_flag(c)
        \/ stop_wait(c)
        \/ stop_clear(c)
        \/ \E ok \in BOOLEAN : stop_driver(c, ok)
        \/ stop_join(c)
        \/ stop_notify(c)
    \/ \E w \in Workers :
        \/ run_clear(w)
        \/ \E ok \in BOOLEAN : run_init(w, ok)
        \/ \E a \in Addrs, m \in BOOLEAN : run_handle(w, a, m)
        \/ run_add(w)
        \/ run_new(w)
        \/ run_process_fail(w)
        \/ run_slice(w)
        \/ run_selfstop(w)
        \/ \E ok \in BOOLEAN : run_driver_stop(w, ok)

Spec == Init /\ [][Next]_vars

\* Direct add_node calls and synchronous discover with the notification
\* loops taken one listener at a time.
NextNotify ==
    \/ \E c \in Callers :
        \/ \E l \in FanListeners : add_listener(c, l)
        \/ \E l \in FanListeners : remove_listener(c, l)
        \/ \E tag \in Tags : add_node(c, tag)
        \/ add_node_check(c)
        \/ add_node_append(c)
        \/ notify_add_node(c)
        \/ discover(c, 1)
        \/ notify_discover_start(c)
        \/ \E a \in Addrs : discover_handle(c, a, FALSE)
        \/ discover_add(c)
        \/ notify_delegate(c)
        \/ notify_discover_stop(c)
        \/ \E o \in CallbackOutcomes : notify_call(c, o)
        \/ notify_end(c)
    \/ pool_run

SpecNotify == Init /\ [][NextNotify]_vars

\* The class-level operations: the singleton and the feature registry.
NextClass ==
    \E c \in Callers :
        \/ \E id \in DeviceIds, m \in FeatureMaps : add_features_to_node(c, id, m)
        \/ \E id \in DeviceIds : get_node_features(c, id)
        \/ \E k \in {0, 5} : caller_change(c, Bit(k))
        \/ caller_drop(c)
        \/ Manager_init(c)
        \/ instance(c)
        \/ instance_new(c)
        \/ instance_set(c)
        \/ instance_ret(c)

SpecClass == Init /\ [][NextClass]_vars

\* The discovery life cycle with reset_discovery.
NextReset ==
    \/ Next
    \/ \E c \in Callers :
        \/ reset_discovery(c)
        \/ reset_stop(c)
        \/ reset_remove(c)

SpecReset == Init /\ [][NextReset]_vars

\* ------------------------------------------------------------------ claims
\* C1: the node list never holds two nodes with the same tag; an add_node
\* call that returns False had a tag that was present, left the list as it
\* was and notified nobody; a call with a fresh tag appends the node, and
\* returns True only after that.
C1_Step ==
    /\ (ret'.op = "add_node" /\ ret'.val = "False") =>
          /\ TagPresent(discovered_nodes, ret'.arg)
          /\ discovered_nodes' = discovered_nodes
          /\ sent' = NoEvent
    /\ \A c \in Callers :
          (pc[c] = "an_append" /\ pc'[c] = "an_notify") =>
             /\ ~(\E i \in 1..Len(discovered_nodes) :
                     discovered_nodes[i] = ctag[c])
             /\ discovered_nodes' = Append(discovered_nodes, ctag[c])
    /\ (ret'.op = "add_node" /\ ret'.val = "True") =>
          /\ pc[ret'.c] = "an_notify"
          /\ ret'.arg = ctag[ret'.c]
          /\ sent'.kind = "node"

C4_RemoveKeepsConnected ==
    [][ \A c \in Callers :
          (\/ (ret'.c = c /\ ret'.op = "remove_nodes")
           \/ (pc[c] = "rn_body" /\ pc'[c] = "idle")) =>
             discovered_nodes' =
                SelectSeq(discovered_nodes, LAMBDA t : t \in connected) ]_vars

\* C5: the sequence a caller got from get_nodes keeps its elements whatever
\* the manager does later, and a change the caller makes to it (pop) does
\* not change the manager's node list.
C5_GetNodesSnapshot ==
    [][ /\ ret'.op # "pop" =>
             \A c \in Callers :
                (held[c] # "none" /\ held'[c] = held[c]) =>
                   Deref(held[c])' = Deref(held[c])
        /\ ret'.op = "pop" => discovered_nodes' = discovered_nodes ]_vars

\* C2: a discover or start_discovery call made while the scanning flag is
\* true, and a stop_discovery call made while it is false, is never
\* accepted; the call that returns False leaves the scanning flag, the node
\* list, the scan-worker reference and the workers as they were and makes
\* no notification.
C2_Frame ==
    /\ is_scanning' = is_scanning
    /\ discovered_nodes' = discovered_nodes
    /\ scanner_thread' = scanner_thread
    /\ wpc' = wpc
    /\ wk' = wk
    /\ sent' = NoEvent

C2_Step ==
    /\ \A c \in Callers :
          /\ (pc[c] = "idle" /\ is_scanning) =>
                pc'[c] \notin {"d_notify", "s_notify"}
          /\ (pc[c] = "idle" /\ ~is_scanning) => pc'[c] # "t_stop"
    /\ (ret'.val = "False" /\ ret'.op \in {"discover", "start_discovery"}) =>
          (is_scanning /\ C2_Frame)
    /\ (ret'.val = "False" /\ ret'.op = "stop_discovery") =>
          (~is_scanning /\ C2_Frame)

C2_RejectedCallsAreNoOps == [][C2_Step]_vars

C2_Witness ==
    /\ ret.op = "start_discovery"
    /\ ret.val = "False"
    /\ is_scanning
    /\ scanner_thread # 0

\* C3: when stop_discovery returns True the scanning flag is false and the
\* discovery-stop notification it has just made to every registered
\* listener is the only one of that scan session.
C3_ExactlyOneStop ==
    [][ (ret'.op = "stop_discovery" /\ ret'.val = "True") =>
           /\ is_scanning' = FALSE
           /\ sent'.kind = "stop"
           /\ sent'.to = Range(listeners)
           /\ session[ret'.arg] # "stop_notified" ]_vars

\* C6: once a worker that no stop_discovery was called for has run to its
\* timeout and stopped itself, and no call is in progress, the scanning
\* flag is false (so the next discover or start_discovery is accepted).
C6_IdleAfterTimeout ==
    \A w \in Workers :
       (/\ wpc[w] = "dead"
        /\ wk[w].timed_out
        /\ session[w] = "open"
        /\ scanner_thread = w
        /\ \A c \in Callers : pc[c] = "idle") => ~is_scanning

\* C7: at most one of the discover / start_discovery calls in progress has
\* been accepted, and at most one scan (a synchronous scan or a running
\* scan worker) is active.
AcceptedCalls ==
    {c \in Callers : pc[c] \in {"d_notify", "d_scan", "d_add", "d_new",
                                "s_notify", "s_create", "s_start"}}

ActiveScans ==
    Cardinality({c \in Callers : pc[c] \in {"d_scan", "d_add", "d_new"}})
    + Cardinality({w \in Workers : wpc[w] \notin {"none", "new", "dead"}})

C7_AtMostOneScan == Cardinality(AcceptedCalls) <= 1 /\ ActiveScans <= 1

\* C8: when stop_discovery returns (True, or by the privilege error that
\* join raises) the worker thread it joined has terminated, and a
\* terminated worker delivers no notification.
C8_Step ==
    /\ (ret'.op = "stop_discovery" /\ ret'.val \in {"True", "BTLEException"})
          => wpc'[ret'.arg] = "dead"
    /\ \A w \in Workers :
          wpc[w] = "dead" => (sent'.byWorker # w /\ wpc'[w] \in {"dead", "new"})

C8_StopWaitsForWorker == [][C8_Step]_vars

C8_Witness ==
    /\ ret.op = "stop_discovery"
    /\ ret.val = "True"
    /\ wpc[ret.arg] = "dead"
    /\ ~wk[ret.arg].timed_out
    /\ wk[ret.arg].process_done
    /\ discovered_nodes # <<>>

\* The worker's run() ended in its except clause: the loop was left without
\* process_done being set.
LoopFailed(w) == wpc[w] = "dead" /\ ~wk[w].process_done

\* C9: the stop_discovery call that stops and joins a worker whose scan loop
\* captured a driver failure raises the privilege error (it does not
\* return True).
C9_FailureIsRaised ==
    [][ (ret'.op = "stop_discovery" /\ ret'.val = "True") =>
           ~LoopFailed(ret'.arg) ]_vars

\* C10: when discover or stop_discovery raises the privilege error the
\* manager is left Idle: the scanning flag is false.
C10_IdleAfterFailure ==
    [][ (ret'.val = "BTLEException"
         /\ ret'.op \in {"discover", "stop_discovery"}) =>
           is_scanning' = FALSE ]_vars


\* C11: every listener callback is run by a thread of the worker pool, never
\* by the thread that made the Manager call or by the scan thread, and no
\* such thread is ever held inside a callback that does not return.
C11_CallbacksRunInPool ==
    /\ sent.kind # "none" => (sent.byCaller = "pool" /\ sent.byWorker = 0)
    /\ \A c \in Callers : pc[c] # "n_hung"

\* C12: when a listener's callback raises, the thread goes on with the next
\* listener of the same event and the Manager call does not end with that
\* exception.
C12_ListenerFailureIsolated ==
    [][ /\ \A c \in Callers :
             (sent'.outcome = "raises" /\ sent'.byCaller = c) =>
                /\ pc'[c] = "n_loop"
                /\ fan'[c].i = fan[c].i + 1
        /\ ret'.val # "Exception" ]_vars


\* A mask with exactly one of its 32 bits set.
SingleBit(mask) == \E k \in 0..31 : mask = Bit(k)

\* C13: add_features_to_node(id, m) with every key of m a single set bit
\* returns without raising, and afterwards the registry maps a previously
\* unregistered id to exactly the entries of m.
C13_ValidMasksRegister ==
    [][ (/\ ret'.op = "add_features_to_node"
         /\ \A k \in Keys(ret'.x) : SingleBit(k)) =>
           /\ ret'.val = "None"
           /\ ret'.arg \notin Keys(features_decoder_dic) =>
                 /\ ret'.arg \in Keys(features_decoder_dic')
                 /\ DictGet(features_decoder_dic', ret'.arg) = ret'.x
      ]_vars

\* C14: add_features_to_node(id, m) with a key of m that is not a single set
\* bit raises the invalid-mask error and leaves the registry as it was.
C14_InvalidMaskRejected ==
    [][ (/\ ret'.op = "add_features_to_node"
         /\ \E k \in Keys(ret'.x) : ~SingleBit(k)) =>
           /\ ret'.val = "InvalidFeatureBitMaskException"
           /\ features_decoder_dic' = features_decoder_dic ]_vars

\* C15: get_node_features of an unregistered id returns a dictionary with
\* the entries of the built-in default mapping, whatever callers did to the
\* dictionaries they got before; a caller's change of the dictionary it got
\* changes neither the default mapping nor the registry.
C15_Step ==
    /\ (/\ ret'.op = "get_node_features"
        /\ ret'.arg \notin Keys(features_decoder_dic)) =>
          /\ ret'.val = "dict"
          /\ \A c \in Callers :
                c = ret'.c => HeldDict(c)' = DEFAULT_MASK_TO_FEATURE_DIC
    /\ ret'.op = "change" =>
          /\ default_dic' = default_dic
          /\ features_decoder_dic' = features_decoder_dic

C16_SingleManager ==
    [][ /\ constructed' <= 1
        /\ (ret'.op = "Manager" /\ constructed >= 1) =>
              ret'.val = "Exception" ]_vars


\* C17: the listener registry never holds a listener twice; add_listener of
\* a registered listener and remove_listener of an unregistered one leave
\* the registry as it was and raise nothing; after add_listener(l) the
\* listener is registered and after remove_listener(l) it is not, so a
\* second add or a second remove changes nothing.
C17_Step ==
    /\ NoDuplicates(listeners')
    /\ ret'.op \in {"add_listener", "remove_listener"} => ret'.val = "None"
    /\ (ret'.op = "add_listener" /\ ret'.l \in Range(listeners)) =>
          listeners' = listeners
    /\ (ret'.op = "remove_listener" /\ ret'.l \notin Range(listeners)) =>
          listeners' = listeners
    /\ (ret'.op = "add_listener" /\ ret'.l # "None") =>
          ret'.l \in Range(listeners')
    /\ ret'.op = "remove_listener" => ret'.l \notin Range(listeners')

C17_ListenersAreASet == [][C17_Step]_vars

\* add_listener of a listener that is registered, with both listeners in
\* the registry: the call returned and the registry kept its length.
C17_Witness ==
    /\ ret.op = "add_listener"
    /\ ret.l \in Range(listeners)
    /\ ret.arg = Len(listeners)
    /\ Len(listeners) = 2


\* C18: get_node_with_tag(t) returns the node added with tag t when it is in
\* the list and None otherwise; get_node_with_name(n) returns the node at
\* the least position of the list whose name is exactly n and None when no
\* listed node has that name; neither raises, neither changes the list.
C18_Step ==
    /\ ret'.op = "get_node_with_tag" =>
          /\ discovered_nodes' = discovered_nodes
          /\ ret'.val \in {"node", "None"}
          /\ ret'.arg \in Range(discovered_nodes) =>
                ret'.node = ret'.arg /\ ret'.val = "node"
          /\ ret'.arg \notin Range(discovered_nodes) =>
                ret'.node = 0 /\ ret'.val = "None"
    /\ ret'.op = "get_node_with_name" =>
          LET matches == {i \in 1..Len(discovered_nodes) :
                            NameOf(discovered_nodes[i]) = ret'.l}
          IN /\ discovered_nodes' = discovered_nodes
             /\ ret'.val \in {"node", "None"}
             /\ matches = {} => ret'.node = 0 /\ ret'.val = "None"
             /\ matches # {} =>
                   /\ ret'.val = "node"
                   /\ \E i \in matches :
                         /\ \A j \in matches : i <= j
                         /\ ret'.node = discovered_nodes[i]

C18_LookupsAgreeWithList == [][C18_Step]_vars

\* A lookup by name with two listed nodes of that name, the node added
\* first having the greater tag: the lookup answered the node added first.
C18_Witness ==
    /\ ret.op = "get_node_with_name"
    /\ ret.l = "NODE"
    /\ discovered_nodes = <<2, 1>>
    /\ ret.node = 2


\* C19: while a caller is blocked in the scan of a synchronous discover, no
\* step of another thread ends a stop_discovery call with an exception,
\* sets the scanning flag to false or delivers a discovery-stop
\* notification; the step that ends the scan at its timeout delivers the
\* discovery-stop notification of the session, by the caller of discover.
C19_Step ==
    \A d \in Callers :
        /\ (pc[d] = "d_scan" /\ pc'[d] = "d_scan") =>
              /\ ret'.op = "stop_discovery" => ret'.val \in {"True", "False"}
              /\ is_scanning => is_scanning'
              /\ sent'.kind # "stop"
        /\ (pc[d] = "d_scan" /\ ret'.op = "discover" /\ ret'.c = d
                /\ ret'.val = "True") =>
              /\ sent'.kind = "stop"
              /\ sent'.byCaller = d

C19_DiscoverNotCancelled == [][C19_Step]_vars


\* The labels of a caller that is inside the blocking scan of discover.
InScan(d) == pc[d] \in {"d_scan", "d_add", "d_new"}

\* C20: a synchronous discover that was accepted sets the scanning flag and
\* notifies discovery-start before its scan; node additions and new-node
\* notifications of its delegate happen inside the scan; the scanning flag
\* is true in every state of the scan; the step that ends the scan sets the
\* flag to false, notifies discovery-stop and returns True; a timeout
\* argument of 0 scans for the default of 10 seconds.
C20_Step ==
    /\ EffectiveTimeout(0) = 10
    /\ \A d \in Callers :
          /\ (pc[d] = "idle" /\ pc'[d] = "d_notify") =>
                ~is_scanning /\ arg'[d] # 0
          /\ (pc[d] = "d_notify" /\ pc'[d] # "d_notify") =>
                /\ is_scanning'
                /\ sent'.kind = "start" /\ sent'.byCaller = d
                /\ pc'[d] = "d_scan"
          /\ InScan(d)' => is_scanning'
          /\ (InScan(d) /\ ~InScan(d)') =>
                /\ ret'.op = "discover" /\ ret'.c = d
                /\ ret'.val = "True" =>
                      /\ pc[d] = "d_scan"
                      /\ ~is_scanning'
                      /\ sent'.kind = "stop" /\ sent'.byCaller = d

C20_DiscoverStepOrder == [][C20_Step]_vars


\* C21: once a caller's stop() has set the stop flag of a started worker,
\* the flag stays set until the worker has exited, and the worker's loop
\* counts no further slice and does not run to its timeout: the end of the
\* slice in progress marks the worker done and ends run().
C21_Step ==
    \A w \in Workers :
        (wk[w].stop_req /\ wpc[w] \notin {"none", "new", "dead"}) =>
            /\ wpc'[w] # "dead" => wk'[w].stop_called
            /\ wk'[w].elapsed <= wk[w].elapsed
            /\ wpc'[w] # "r_selfstop"
            /\ (wpc[w] = "r_proc" /\ wpc'[w] = "dead"
                    /\ wk'[w].exc # "exc_info") => wk'[w].process_done

C21_StopRequestNotLost == [][C21_Step]_vars


\* ------------------------------------------------ worker life cycle, fair
\* start_discovery, stop_discovery and the scan worker, with every thread
\* that has a statement to execute eventually executing it.
NextLive ==
    \/ \E c \in Callers :
        \/ \E t \in TimeoutInputs : start_discovery(c, t)
        \/ start_notify(c)
        \/ start_create(c)
        \/ start_thread(c)
        \/ stop_discovery(c)
        \/ stop_set_flag(c)
        \/ stop_wait(c)
        \/ stop_clear(c)
        \/ \E ok \in BOOLEAN : stop_driver(c, ok)
        \/ stop_join(c)
        \/ stop_notify(c)
    \/ \E w \in Workers :
        \/ run_clear(w)
        \/ \E ok \in BOOLEAN : run_init(w, ok)
        \/ run_process_fail(w)
        \/ run_slice(w)
        \/ run_selfstop(w)
        \/ \E ok \in BOOLEAN : run_driver_stop(w, ok)

\* The statements of a call in progress (not the start of a new call).
CallerStep(c) ==
    \/ start_notify(c)
    \/ start_create(c)
    \/ start_thread(c)
    \/ stop_set_flag(c)
    \/ stop_wait(c)
    \/ stop_clear(c)
    \/ \E ok \in BOOLEAN : stop_driver(c, ok)
    \/ stop_join(c)
    \/ stop_notify(c)

\* The statements of run() in a started worker thread.
WorkerStep(w) ==
    \/ run_clear(w)
    \/ \E ok \in BOOLEAN : run_init(w, ok)
    \/ run_slice(w)
    \/ run_selfstop(w)
    \/ \E ok \in BOOLEAN : run_driver_stop(w, ok)

SpecLive ==
    /\ Init
    /\ [][NextLive]_vars
    /\ \A c \in Callers : WF_vars(CallerStep(c))
    /\ \A w \in Workers : WF_vars(WorkerStep(w))

\* C22 (slices): the loop of run() leaves by the timeout branch exactly when
\* the slice that ends is the T-th, marking the worker done, and leaves
\* without a failure before that only when the stop flag is set.
C22_Step ==
    \A w \in Workers :
        /\ (wpc[w] = "r_proc" /\ wpc'[w] = "r_selfstop") =>
              /\ wk[w].elapsed + 1 = wk[w].timeout_s
              /\ wk'[w].process_done
        /\ (wpc[w] = "r_proc" /\ wpc'[w] = "dead"
                /\ wk'[w].exc # "exc_info") =>
              wk[w].stop_called /\ wk'[w].process_done
        /\ (wpc[w] = "r_proc" /\ wpc'[w] = "r_proc") =>
              wk'[w].elapsed < wk[w].timeout_s

\* C22: in addition, with fair scheduling a started worker terminates and
\* the busy-wait of a caller's stop() ends.
C22_WorkerTerminatesStopReturns ==
    /\ [][C22_Step]_vars
    /\ \A w \in Workers :
          (wpc[w] \notin {"none", "new", "dead"}) ~> (wpc[w] = "dead")
    /\ \A c \in Callers : (pc[c] = "t_wait") ~> (pc[c] # "t_wait")


\* The number of positions of a sequence that hold x.
Count(seq, x) == Cardinality({i \in 1..Len(seq) : seq[i] = x})

\* C23: handleDiscovery of an advertisement whose address is the tag of a
\* listed node returns with the list as it was and no notification; for an
\* address that matched no node, the delegate's add_node leaves exactly one
\* node with that tag in the list, and the notification that follows ends
\* with the scan going on and every listener that was registered (and still
\* is) notified exactly once.
C23_Step ==
    /\ (ret'.op = "handleDiscovery" /\ ret'.l = "known") =>
          /\ ret'.arg \in Range(discovered_nodes)
          /\ discovered_nodes' = discovered_nodes
          /\ sent'.kind = "none"
    /\ \A c \in Callers :
          /\ (pc[c] = "d_add" /\ pc'[c] # "d_add") =>
                Count(discovered_nodes', ctag[c]) = 1
          /\ (pc[c] = "n_loop" /\ fan[c].op = "delegate"
                  /\ pc'[c] # "n_loop") =>
                /\ pc'[c] = "d_scan"
                /\ \A l \in fan[c].at \cap Range(listeners) :
                      Count(fan[c].seen, l) = 1

C23_DelegateAddsOnce == [][C23_Step]_vars


\* C24: handleDiscovery of a malformed payload returns normally, whichever
\* of the two exceptions the payload raised, with the node list unchanged
\* and no notification, and the thread stays in its scan, where the next
\* advertisement is handled.
C24_Step ==
    (ret'.op = "handleDiscovery" /\ ret'.l = "malformed") =>
        /\ ret'.val = "None"
        /\ discovered_nodes' = discovered_nodes
        /\ sent'.kind = "none"
        /\ pc' = pc /\ wpc' = wpc
        /\ ret'.c = "worker" => \E w \in Workers : wpc'[w] = "r_proc"
        /\ ret'.c # "worker" => pc'[ret'.c] = "d_scan"

C24_MalformedPayloadSkipped == [][C24_Step]_vars

\* A malformed advertisement of a listed address was handled by the scan
\* worker: the update of the node failed and the worker goes on scanning.
C24_Witness ==
    /\ ret.op = "handleDiscovery"
    /\ ret.l = "malformed"
    /\ ret.c = "worker"
    /\ ret.arg \in Range(discovered_nodes)
    /\ \E w \in Workers : wpc[w] = "r_proc"


\* C25: an accepted start_discovery returns with the manager referring to a
\* worker it has just created and started; a stop_discovery that returns
\* True leaves the manager without a worker reference; and no stop() is
\* begun on a worker that a stop_discovery has joined already.
C25_Step ==
    /\ (ret'.op = "start_discovery" /\ ret'.val = "True") =>
          /\ scanner_thread' # 0
          /\ scanner_thread' = ret'.arg
    /\ (ret'.op = "stop_discovery" /\ ret'.val = "True") =>
          scanner_thread' = 0
    /\ \A c \in Callers :
          (pc[c] = "t_stop" /\ pc'[c] = "t_wait") =>
              session[tgt'[c]] # "stop_notified"

C25_WorkerReferenceDiscarded == [][C25_Step]_vars


\* C26: when a callback is dispatched, the state change it reports is what
\* the listener observes (is_discovering() equals the reported value; the
\* new node is in get_nodes()), and the dispatching thread holds no lock of
\* the manager, so the callback can take the node-list lock.
C26_Step ==
    \A c \in Callers :
        (sent'.kind # "none" /\ sent'.byCaller = c /\ pc[c] = "n_loop") =>
            /\ sent'.kind = "start" => is_scanning
            /\ sent'.kind = "stop" => ~is_scanning
            /\ sent'.kind = "node" => ctag[c] \in Range(discovered_nodes)
            /\ nodes_lock # c

C26_DispatchedAfterChange == [][C26_Step]_vars


\* C27: when a fan-out loop ends, every listener that was registered as the
\* loop began and is still registered has been notified exactly once, and
\* no listener has been notified twice, whatever other threads added to or
\* removed from the registry during the loop.
C27_Step ==
    \A c \in Callers :
        (pc[c] = "n_loop" /\ fan[c].i > Len(listeners)
            /\ fan'[c] = NoFan) =>
            /\ \A l \in fan[c].at \cap Range(listeners) :
                  Count(fan[c].seen, l) = 1
            /\ \A l \in FanListeners : Count(fan[c].seen, l) <= 1

C27_FanOutExactlyOnce == [][C27_Step]_vars


\* C28: Scanner.stop is called at most once on the scanner of a worker,
\* that is, at most once in an asynchronous scan session.
C28_DriverStoppedOnce == \A w \in Workers : wk[w].drv_stops <= 1


\* C29: the test of stop()'s busy-wait and the test of join() read a
\* failure field that run() or stop() has assigned, and a stop_discovery
\* that acted on a worker ends by returning or with the privilege error
\* (BTLEException), never with another exception.
C29_Step ==
    /\ \A c \in Callers :
          /\ (pc[c] = "t_wait" /\ pc'[c] # "t_wait") =>
                (wk[tgt[c]].process_done \/ wk[tgt[c]].exc # "unset")
          /\ (pc[c] = "t_join" /\ pc'[c] # "t_join"
                  /\ wpc[scanner_thread] # "new") =>
                wk[scanner_thread].exc # "unset"
    /\ (ret'.op = "stop_discovery" /\ ret'.arg # 0) =>
          ret'.val \in {"True", "False", "BTLEException"}

C29_FailureFieldInitialised == [][C29_Step]_vars

=============================================================================
